---- MODULE Spec2Model ----
\* Verification model of the Bitcoin-style wire codec in src/src/lib.rs:
\* CompactSize, Txid, OutPoint, Script, TransactionInput, BitcoinTransaction.
\*
\* TLC integers are 32-bit, so a Rust u32 is kept as 2 and a u64 (and a 64-bit
\* usize) as 4 little-endian limbs of 16 bits; every cast, comparison, addition
\* and byte conversion of the source is carried out on limbs, at full width.
EXTENDS Integers, Sequences, FiniteSets, TLC

\* ---------------------------------------------------------------- bounds
\* Longest short script drawn as a sample value.
MaxScriptLen == 2
\* Most inputs of a sample transaction.
MaxInputs == 2
\* Longest run of trailing bytes appended to a buffer.
MaxPad == 2

\* ------------------------------------------------------- machine integers
Limb == 256 * 256

\* A small natural number as a u32 / u64 / usize.
U32Of(n) == <<n % Limb, n \div Limb>>
U64Of(n) == <<n % Limb, n \div Limb, 0, 0>>

U32_MAX == <<65535, 65535>>
U64_MAX == <<65535, 65535, 65535, 65535>>

\* `a < b` and `a <= b` on u64 / usize.
U64Lt(a, b) ==
    \/ a[4] < b[4]
    \/ a[4] = b[4] /\ a[3] < b[3]
    \/ a[4] = b[4] /\ a[3] = b[3] /\ a[2] < b[2]
    \/ a[4] = b[4] /\ a[3] = b[3] /\ a[2] = b[2] /\ a[1] < b[1]

U64Le(a, b) == ~U64Lt(b, a)

\* A range pattern `lo..=hi` of a match on a u64.
U64InRange(v, lo, hi) == U64Le(lo, v) /\ U64Le(v, hi)

\* usize `a + b`: the sum modulo 2^64 and whether it overflowed.
UsizeAdd(a, b) ==
    LET s1 == a[1] + b[1]
        s2 == a[2] + b[2] + (s1 \div Limb)
        s3 == a[3] + b[3] + (s2 \div Limb)
        s4 == a[4] + b[4] + (s3 \div Limb)
    IN  [sum      |-> <<s1 % Limb, s2 % Limb, s3 % Limb, s4 % Limb>>,
         overflow |-> s4 \div Limb > 0]

\* A usize known to be at most a buffer length, as a natural number.
UsizeToNat(u) == u[1] + Limb * u[2]

\* Casts `as u8`, `as u16`, `as u32`, `as u64`, `as usize` (64-bit target).
AsU8(v) == v[1] % 256
AsU16(v) == v[1]
AsU32(v) == <<v[1], v[2]>>
U8AsU64(b) == <<b, 0, 0, 0>>
U16AsU64(h) == <<h, 0, 0, 0>>
U32AsU64(w) == <<w[1], w[2], 0, 0>>
U64AsUsize(v) == v

u16_to_le_bytes(h) == <<h % 256, h \div 256>>
u32_to_le_bytes(w) == u16_to_le_bytes(w[1]) \o u16_to_le_bytes(w[2])
u64_to_le_bytes(v) ==
    u16_to_le_bytes(v[1]) \o u16_to_le_bytes(v[2])
        \o u16_to_le_bytes(v[3]) \o u16_to_le_bytes(v[4])

\* Mutant: the four bytes read most significant first.
u32_from_be_bytes(b) == <<b[4] + 256 * b[3], b[2] + 256 * b[1]>>

u16_from_le_bytes(b) == b[1] + 256 * b[2]
u32_from_le_bytes(b) == <<b[1] + 256 * b[2], b[3] + 256 * b[4]>>
u64_from_le_bytes(b) ==
    <<b[1] + 256 * b[2], b[3] + 256 * b[4], b[5] + 256 * b[6], b[7] + 256 * b[8]>>

\* ------------------------------------------------------- slices, results
\* `&bytes[a..b]` (0-based, half open) and the bounds check that guards it.
InBounds(bytes, a, b) == a <= b /\ b <= Len(bytes)
Slice(bytes, a, b) == SubSeq(bytes, a + 1, b)

NoValue == [none |-> TRUE]
Ok(v, n) == [tag |-> "Ok", value |-> v, consumed |-> n, err |-> "none"]
Err(e) == [tag |-> "Err", value |-> NoValue, consumed |-> 0, err |-> e]
Panic(why) == [tag |-> "Panic", value |-> NoValue, consumed |-> 0, err |-> why]

InsufficientBytes == "InsufficientBytes"
InvalidFormat == "InvalidFormat"

\* ------------------------------------------------------------ CompactSize
CompactSize_new(value) == [value |-> value]

\* Mutant: the one-byte range taken one too far, `0..=0xFD`.
CompactSize_to_bytes_wide_first_range(self) ==
    IF U64InRange(self.value, U64Of(0), U64Of(253))
    THEN <<AsU8(self.value)>>
    ELSE IF U64InRange(self.value, U64Of(254), U64Of(65535))
    THEN <<253>> \o u16_to_le_bytes(AsU16(self.value))
    ELSE IF U64InRange(self.value, U64Of(65536), U32AsU64(U32_MAX))
    THEN <<254>> \o u32_to_le_bytes(AsU32(self.value))
    ELSE <<255>> \o u64_to_le_bytes(self.value)

CompactSize_to_bytes(self) ==
    IF U64InRange(self.value, U64Of(0), U64Of(252))
    THEN <<AsU8(self.value)>>
    ELSE IF U64InRange(self.value, U64Of(253), U64Of(65535))
    THEN <<253>> \o u16_to_le_bytes(AsU16(self.value))
    ELSE IF U64InRange(self.value, U64Of(65536), U32AsU64(U32_MAX))
    THEN <<254>> \o u32_to_le_bytes(AsU32(self.value))
    ELSE <<255>> \o u64_to_le_bytes(self.value)

\* Mutant: an over-long encoding of a small value is rejected.
CompactSize_from_bytes_canonical(bytes) ==
    IF Len(bytes) = 0 THEN Err(InsufficientBytes)
    ELSE LET prefix == bytes[1] IN
         IF prefix <= 252 THEN Ok(CompactSize_new(U8AsU64(prefix)), 1)
         ELSE IF prefix = 253 THEN
            IF Len(bytes) < 3 THEN Err(InsufficientBytes)
            ELSE IF u16_from_le_bytes(Slice(bytes, 1, 3)) < 253 THEN Err(InvalidFormat)
            ELSE Ok(CompactSize_new(U16AsU64(u16_from_le_bytes(Slice(bytes, 1, 3)))), 3)
         ELSE IF prefix = 254 THEN
            IF Len(bytes) < 5 THEN Err(InsufficientBytes)
            ELSE IF u32_from_le_bytes(Slice(bytes, 1, 5))[2] = 0 THEN Err(InvalidFormat)
            ELSE Ok(CompactSize_new(U32AsU64(u32_from_le_bytes(Slice(bytes, 1, 5)))), 5)
         ELSE
            IF Len(bytes) < 9 THEN Err(InsufficientBytes)
            ELSE IF U64Le(u64_from_le_bytes(Slice(bytes, 1, 9)), U32AsU64(U32_MAX))
            THEN Err(InvalidFormat)
            ELSE Ok(CompactSize_new(u64_from_le_bytes(Slice(bytes, 1, 9))), 9)

CompactSize_from_bytes(bytes) ==
    IF Len(bytes) = 0 THEN Err(InsufficientBytes)
    ELSE LET prefix == bytes[1] IN
         IF prefix <= 252 THEN Ok(CompactSize_new(U8AsU64(prefix)), 1)
         ELSE IF prefix = 253 THEN
            IF Len(bytes) < 3 THEN Err(InsufficientBytes)
            ELSE IF ~InBounds(bytes, 1, 3) THEN Panic("slice")
            ELSE Ok(CompactSize_new(U16AsU64(u16_from_le_bytes(Slice(bytes, 1, 3)))), 3)
         ELSE IF prefix = 254 THEN
            IF Len(bytes) < 5 THEN Err(InsufficientBytes)
            ELSE IF ~InBounds(bytes, 1, 5) THEN Panic("slice")
            ELSE Ok(CompactSize_new(U32AsU64(u32_from_le_bytes(Slice(bytes, 1, 5)))), 5)
         ELSE
            IF Len(bytes) < 9 THEN Err(InsufficientBytes)
            ELSE IF ~InBounds(bytes, 1, 9) THEN Panic("slice")
            ELSE Ok(CompactSize_new(u64_from_le_bytes(Slice(bytes, 1, 9))), 9)

\* --------------------------------------------------------- Txid, OutPoint
Txid(arr) == [arr |-> arr]

OutPoint_new(txid, vout) == [txid |-> Txid(txid), vout |-> vout]

OutPoint_to_bytes(self) == self.txid.arr \o u32_to_le_bytes(self.vout)

\* Mutant: only the txid's 32 bytes are required before the 36 are read.
OutPoint_from_bytes_txid_only(bytes) ==
    IF Len(bytes) < 32 THEN Err(InsufficientBytes)
    ELSE IF ~InBounds(bytes, 0, 32) \/ ~InBounds(bytes, 32, 36) THEN Panic("slice")
    ELSE Ok(OutPoint_new(Slice(bytes, 0, 32),
                         u32_from_le_bytes(Slice(bytes, 32, 36))), 36)

OutPoint_from_bytes(bytes) ==
    IF Len(bytes) < 36 THEN Err(InsufficientBytes)
    ELSE IF ~InBounds(bytes, 0, 32) \/ ~InBounds(bytes, 32, 36) THEN Panic("slice")
    ELSE Ok(OutPoint_new(Slice(bytes, 0, 32),
                         u32_from_le_bytes(Slice(bytes, 32, 36))), 36)

\* ----------------------------------------------------------------- Script
Script_new(bytes) == [bytes |-> bytes]

Script_to_bytes(self) ==
    CompactSize_to_bytes(CompactSize_new(U64Of(Len(self.bytes)))) \o self.bytes

\* The bound check and the copy, given the prefix's width `size_len` and the
\* result `add` of `size_len + size.value as usize`. `overflow_checks` is the
\* build's choice for that addition: with it the addition panics on overflow,
\* without it the sum wraps.
Script_from_total_len(bytes, overflow_checks, size_len, add) ==
    IF add.overflow /\ overflow_checks THEN Panic("add overflow")
    ELSE IF U64Lt(U64Of(Len(bytes)), add.sum) THEN Err(InsufficientBytes)
    ELSE IF U64Lt(add.sum, U64Of(size_len)) THEN Panic("slice")
    ELSE Ok(Script_new(Slice(bytes, size_len, UsizeToNat(add.sum))),
            UsizeToNat(add.sum))

\* Mutant: the script is everything after the prefix, whatever length it declares.
Script_from_size_rest(bytes, overflow_checks, r) ==
    IF r.tag # "Ok" THEN r
    ELSE Ok(Script_new(Slice(bytes, r.consumed, Len(bytes))), Len(bytes))

\* The rest of the function once the prefix is decoded to `r`.
Script_from_size(bytes, overflow_checks, r) ==
    IF r.tag # "Ok" THEN r
    ELSE Script_from_total_len(bytes, overflow_checks, r.consumed,
                               UsizeAdd(U64Of(r.consumed), U64AsUsize(r.value.value)))

Script_from_bytes(bytes, overflow_checks) ==
    Script_from_size(bytes, overflow_checks, CompactSize_from_bytes(bytes))

\* ------------------------------------------------------- TransactionInput
TransactionInput_new(previous_output, script_sig, sequence) ==
    [previous_output |-> previous_output,
     script_sig      |-> script_sig,
     sequence        |-> sequence]

\* Mutant: the sequence written before the script.
TransactionInput_to_bytes_sequence_first(self) ==
    OutPoint_to_bytes(self.previous_output)
        \o u32_to_le_bytes(self.sequence)
        \o Script_to_bytes(self.script_sig)

TransactionInput_to_bytes(self) ==
    OutPoint_to_bytes(self.previous_output)
        \o Script_to_bytes(self.script_sig)
        \o u32_to_le_bytes(self.sequence)

\* The sequence field, read at `offset` = offset1 + offset2.
TransactionInput_read_sequence(bytes, prev_out, script, offset) ==
    IF Len(bytes) < offset + 4 THEN Err(InsufficientBytes)
    ELSE IF ~InBounds(bytes, offset, offset + 4) THEN Panic("slice")
    ELSE Ok(TransactionInput_new(prev_out, script,
                                 u32_from_le_bytes(Slice(bytes, offset, offset + 4))),
            offset + 4)

\* The rest of the function once the script is decoded to `r2`.
TransactionInput_after_script(bytes, r1, r2) ==
    IF r2.tag # "Ok" THEN r2
    ELSE TransactionInput_read_sequence(bytes, r1.value, r2.value,
                                        r1.consumed + r2.consumed)

\* The rest of the function once the outpoint is decoded to `r1`.
TransactionInput_after_outpoint(bytes, overflow_checks, r1) ==
    IF r1.tag # "Ok" THEN r1
    ELSE IF r1.consumed > Len(bytes) THEN Panic("slice")
    ELSE TransactionInput_after_script(
            bytes, r1,
            Script_from_bytes(Slice(bytes, r1.consumed, Len(bytes)), overflow_checks))

TransactionInput_from_bytes(bytes, overflow_checks) ==
    TransactionInput_after_outpoint(bytes, overflow_checks, OutPoint_from_bytes(bytes))

\* ----------------------------------------------------- BitcoinTransaction
BitcoinTransaction_new(version, inputs, lock_time) ==
    [version |-> version, inputs |-> inputs, lock_time |-> lock_time]

\* `for input in &self.inputs { result.extend_from_slice(&input.to_bytes()) }`
RECURSIVE ExtendWithInputs(_, _)
ExtendWithInputs(result, inputs) ==
    IF inputs = <<>> THEN result
    ELSE ExtendWithInputs(result \o TransactionInput_to_bytes(Head(inputs)),
                          Tail(inputs))

BitcoinTransaction_to_bytes(self) ==
    ExtendWithInputs(
        u32_to_le_bytes(self.version)
            \o CompactSize_to_bytes(CompactSize_new(U64Of(Len(self.inputs)))),
        self.inputs)
        \o u32_to_le_bytes(self.lock_time)

\* `for _ in 0..size.value { ... }` from iteration i on: the inputs read and the
\* offset reached, or the first error. ReadInputs_step is one turn of the loop
\* body, given the result `r` of reading the input at `offset`.
RECURSIVE ReadInputs(_, _, _, _, _, _)

\* Mutant: the loop stops at the first input that fails and keeps those read.
ReadInputs_step_partial(bytes, overflow_checks, count, i, inputs, offset, r) ==
    IF r.tag # "Ok" THEN Ok(inputs, offset)
    ELSE ReadInputs(bytes, overflow_checks, count, i + 1,
                    Append(inputs, r.value), offset + r.consumed)

ReadInputs_step(bytes, overflow_checks, count, i, inputs, offset, r) ==
    IF r.tag # "Ok" THEN r
    ELSE ReadInputs(bytes, overflow_checks, count, i + 1,
                    Append(inputs, r.value), offset + r.consumed)

ReadInputs(bytes, overflow_checks, count, i, inputs, offset) ==
    IF ~U64Lt(U64Of(i), count) THEN Ok(inputs, offset)
    ELSE IF offset > Len(bytes) THEN Panic("slice")
    ELSE ReadInputs_step(
            bytes, overflow_checks, count, i, inputs, offset,
            TransactionInput_from_bytes(Slice(bytes, offset, Len(bytes)),
                                        overflow_checks))

\* The lock time, read at `offset` after the inputs.
BitcoinTransaction_read_lock_time(bytes, version, inputs, offset) ==
    IF Len(bytes) < offset + 4 THEN Err(InsufficientBytes)
    ELSE IF ~InBounds(bytes, offset, offset + 4) THEN Panic("slice")
    ELSE Ok(BitcoinTransaction_new(version, inputs,
                                   u32_from_le_bytes(Slice(bytes, offset, offset + 4))),
            offset + 4)

\* The rest of the function once the loop has ended with `loop`.
BitcoinTransaction_after_inputs(bytes, version, loop) ==
    IF loop.tag # "Ok" THEN loop
    ELSE BitcoinTransaction_read_lock_time(bytes, version, loop.value, loop.consumed)

\* The rest of the function once the count is decoded to `r1`.
BitcoinTransaction_after_count(bytes, overflow_checks, version, r1) ==
    IF r1.tag # "Ok" THEN r1
    ELSE BitcoinTransaction_after_inputs(
            bytes, version,
            ReadInputs(bytes, overflow_checks, r1.value.value, 0, <<>>,
                       4 + r1.consumed))

BitcoinTransaction_from_bytes(bytes, overflow_checks) ==
    IF Len(bytes) < 4 THEN Err(InsufficientBytes)
    ELSE BitcoinTransaction_after_count(
            bytes, overflow_checks,
            u32_from_le_bytes(Slice(bytes, 0, 4)),
            CompactSize_from_bytes(Slice(bytes, 4, Len(bytes))))

\* ------------------------------------------------------------- Txid serde
\* Strings are their ASCII bytes. hex::encode writes two lowercase digits per
\* byte; hex::decode takes either case and fails on an odd length or on the
\* first character that is no hex digit.
HEX_CHARS_LOWER == <<48, 49, 50, 51, 52, 53, 54, 55, 56, 57, 97, 98, 99, 100, 101, 102>>

RECURSIVE hex_encode(_)
hex_encode(data) ==
    IF data = <<>> THEN <<>>
    ELSE <<HEX_CHARS_LOWER[(Head(data) \div 16) + 1],
           HEX_CHARS_LOWER[(Head(data) % 16) + 1]>> \o hex_encode(Tail(data))

\* The value of one hex digit, or -1.
hex_val(c) ==
    IF c >= 65 /\ c <= 70 THEN c - 65 + 10
    ELSE IF c >= 97 /\ c <= 102 THEN c - 97 + 10
    ELSE IF c >= 48 /\ c <= 57 THEN c - 48
    ELSE -1

RECURSIVE hex_decode_pairs(_)
hex_decode_pairs(hex) ==
    IF hex = <<>> THEN Ok(<<>>, 0)
    ELSE IF hex_val(hex[1]) < 0 \/ hex_val(hex[2]) < 0
    THEN Err("custom(InvalidHexCharacter)")
    ELSE LET rest == hex_decode_pairs(SubSeq(hex, 3, Len(hex))) IN
         IF rest.tag # "Ok" THEN rest
         ELSE Ok(<<hex_val(hex[1]) * 16 + hex_val(hex[2])>> \o rest.value, 0)

hex_decode(hex) ==
    IF Len(hex) % 2 # 0 THEN Err("custom(OddLength)")
    ELSE hex_decode_pairs(hex)

Txid_serialize(self) == hex_encode(self.arr)

\* Mutant: only a decoded length below 32 is refused.
Txid_from_decoded_min_length(r) ==
    IF r.tag # "Ok" THEN r
    ELSE IF Len(r.value) < 32 THEN Err("custom(Invalid Txid length)")
    ELSE Ok(Txid(SubSeq(r.value, 1, 32)), 0)

\* The rest of the function once hex::decode has returned `r`.
Txid_from_decoded(r) ==
    IF r.tag # "Ok" THEN r
    ELSE IF Len(r.value) # 32 THEN Err("custom(Invalid Txid length)")
    ELSE Ok(Txid(r.value), 0)

Txid_deserialize(hex_str) == Txid_from_decoded(hex_decode(hex_str))

\* ---------------------------------------------------------- sample values
Fill(b, n) == [i \in 1..n |-> b]
Ramp(n) == [i \in 1..n |-> 170 + i]

ZeroArr == Fill(0, 32)
MixedArr == [i \in 1..32 |-> (i * 7 + 3) % 256]

\* The width boundaries of the encoding, and the sizes next to 2^64.
CompactSizeSamples ==
    {CompactSize_new(v) : v \in
        {U64Of(0), U64Of(10), U64Of(252), U64Of(253), U64Of(65535), U64Of(65536),
         U32AsU64(U32_MAX), <<0, 0, 1, 0>>, <<65526, 65535, 65535, 65535>>,
         <<65527, 65535, 65535, 65535>>, U64_MAX}}

OutPointSamples ==
    {OutPoint_new(ZeroArr, U32Of(0)), OutPoint_new(MixedArr, <<513, 1027>>)}

\* Short scripts, one of 253 bytes (the first length with a 3-byte prefix) and
\* one of four 0xFF bytes.
ScriptSamples ==
    {Script_new(Ramp(n)) : n \in 0..MaxScriptLen}
        \cup {Script_new(Fill(171, 253)), Script_new(Fill(255, 4))}

TransactionInputSamples ==
    {TransactionInput_new(OutPoint_new(ZeroArr, U32Of(0)), Script_new(<<>>), U32Of(0)),
     TransactionInput_new(OutPoint_new(MixedArr, <<513, 1027>>),
                          Script_new(Ramp(MaxScriptLen)), <<65534, 65535>>),
     TransactionInput_new(OutPoint_new(MixedArr, U32Of(1)),
                          Script_new(Fill(255, 4)), U32_MAX)}

\* The inputs transactions are built from.
TxInputChoices ==
    {TransactionInput_new(OutPoint_new(ZeroArr, U32Of(0)), Script_new(<<>>), U32Of(0)),
     TransactionInput_new(OutPoint_new(MixedArr, <<513, 1027>>),
                          Script_new(Ramp(MaxScriptLen)), <<65534, 65535>>)}

RECURSIVE SeqsUpTo(_, _)
SeqsUpTo(S, n) ==
    IF n = 0 THEN {<<>>}
    ELSE LET shorter == SeqsUpTo(S, n - 1) IN
         shorter \cup {Append(q, x) : q \in shorter, x \in S}

BitcoinTransactionSamples ==
    {BitcoinTransaction_new(vl[1], inputs, vl[2]) :
        vl \in {<<U32Of(1), U32Of(0)>>, <<<<513, 1027>>, U32_MAX>>},
        inputs \in SeqsUpTo(TxInputChoices, MaxInputs)}

TxidSamples == {Txid(ZeroArr), Txid(MixedArr), Txid(Fill(255, 32))}

Decoders ==
    {"CompactSize", "OutPoint", "Script", "TransactionInput", "BitcoinTransaction"}
Entities == Decoders \cup {"Txid"}

Samples(e) ==
    CASE e = "CompactSize" -> CompactSizeSamples
      [] e = "OutPoint" -> OutPointSamples
      [] e = "Script" -> ScriptSamples
      [] e = "TransactionInput" -> TransactionInputSamples
      [] e = "BitcoinTransaction" -> BitcoinTransactionSamples
      [] e = "Txid" -> TxidSamples

to_bytes(e, x) ==
    CASE e = "CompactSize" -> CompactSize_to_bytes(x)
      [] e = "OutPoint" -> OutPoint_to_bytes(x)
      [] e = "Script" -> Script_to_bytes(x)
      [] e = "TransactionInput" -> TransactionInput_to_bytes(x)
      [] e = "BitcoinTransaction" -> BitcoinTransaction_to_bytes(x)

from_bytes(d, b, overflow_checks) ==
    CASE d = "CompactSize" -> CompactSize_from_bytes(b)
      [] d = "OutPoint" -> OutPoint_from_bytes(b)
      [] d = "Script" -> Script_from_bytes(b, overflow_checks)
      [] d = "TransactionInput" -> TransactionInput_from_bytes(b, overflow_checks)
      [] d = "BitcoinTransaction" -> BitcoinTransaction_from_bytes(b, overflow_checks)

\* Bytes written over one byte of a buffer, and bytes appended to it. A hex
\* string is text: 'A', 'g' and ' ' over a digit, '0' and 'g' after the end.
CorruptBytes(e) == IF e = "Txid" THEN {65, 103, 32} ELSE {2, 10, 253, 255}
PadBytes(e) == IF e = "Txid" THEN {48, 103} ELSE {0, 255}
Pads(e) == SeqsUpTo(PadBytes(e), MaxPad) \ {<<>>}

\* ------------------------------------------------------------- the driver
\* A caller holds a value, writes it to the wire, the buffer is possibly cut
\* short, damaged in one byte or followed by other data, and some decoder reads
\* it.
VARIABLES
    entity,     \* the type of the value held
    value,      \* the value held
    bytes,      \* the buffer (for a Txid: the hex string)
    pc,         \* "new", "wire", "decoded"
    edit,       \* what happened to the buffer after it was written
    decoder,    \* the decoder that read the buffer
    overflow_checks,    \* the build: debug (TRUE) or release (FALSE) arithmetic
    result      \* what the decoder returned

vars == <<entity, value, bytes, pc, edit, decoder, overflow_checks, result>>

NoResult == [tag |-> "None", value |-> NoValue, consumed |-> 0, err |-> "none"]

Init ==
    /\ entity \in Entities
    /\ value \in Samples(entity)
    /\ overflow_checks \in BOOLEAN
    /\ bytes = <<>>
    /\ pc = "new"
    /\ edit = "none"
    /\ decoder = "none"
    /\ result = NoResult

Encode ==
    /\ pc = "new"
    /\ entity \in Decoders
    /\ bytes' = to_bytes(entity, value)
    /\ pc' = "wire"
    /\ UNCHANGED <<entity, value, edit, decoder, overflow_checks, result>>

Serialize ==
    /\ pc = "new"
    /\ entity = "Txid"
    /\ bytes' = Txid_serialize(value)
    /\ pc' = "wire"
    /\ UNCHANGED <<entity, value, edit, decoder, overflow_checks, result>>

Truncate ==
    /\ pc = "wire"
    /\ edit = "none"
    /\ \E n \in 0..(Len(bytes) - 1) : bytes' = SubSeq(bytes, 1, n)
    /\ edit' = "truncate"
    /\ UNCHANGED <<entity, value, pc, decoder, overflow_checks, result>>

Corrupt ==
    /\ pc = "wire"
    /\ edit = "none"
    /\ \E i \in 1..Len(bytes) : \E b \in CorruptBytes(entity) \ {bytes[i]} :
            bytes' = [bytes EXCEPT ![i] = b]
    /\ edit' = "corrupt"
    /\ UNCHANGED <<entity, value, pc, decoder, overflow_checks, result>>

Extend ==
    /\ pc = "wire"
    /\ edit = "none"
    /\ \E s \in Pads(entity) : bytes' = bytes \o s
    /\ edit' = "extend"
    /\ UNCHANGED <<entity, value, pc, decoder, overflow_checks, result>>

Decode ==
    /\ pc = "wire"
    /\ entity \in Decoders
    /\ \E d \in Decoders :
        /\ decoder' = d
        /\ result' = from_bytes(d, bytes, overflow_checks)
    /\ pc' = "decoded"
    /\ UNCHANGED <<entity, value, bytes, edit, overflow_checks>>

Deserialize ==
    /\ pc = "wire"
    /\ entity = "Txid"
    /\ decoder' = "Txid"
    /\ result' = Txid_deserialize(bytes)
    /\ pc' = "decoded"
    /\ UNCHANGED <<entity, value, bytes, edit, overflow_checks>>

Next ==
    \/ Encode
    \/ Serialize
    \/ Truncate
    \/ Corrupt
    \/ Extend
    \/ Decode
    \/ Deserialize

Spec == Init /\ [][Next]_vars

TypeOK ==
    /\ entity \in Entities
    /\ pc \in {"new", "wire", "decoded"}
    /\ result.tag \in {"None", "Ok", "Err", "Panic"}
    /\ \A i \in 1..Len(bytes) : bytes[i] \in 0..255

\* ------------------------------------------------- wire format, as stated
\* Byte k (from 0) of an integer held in 16-bit limbs, and its first n bytes
\* in little-endian order.
ByteOf(limbs, k) == (limbs[(k \div 2) + 1] \div (IF k % 2 = 0 THEN 1 ELSE 256)) % 256
LittleEndian(limbs, n) == [k \in 1..n |-> ByteOf(limbs, k - 1)]

\* The stated VarInt of a u64: the tag chosen by magnitude.
VarIntOf(v) ==
    IF v[4] # 0 \/ v[3] # 0 THEN <<255>> \o LittleEndian(v, 8)
    ELSE IF v[2] # 0 THEN <<254>> \o LittleEndian(v, 4)
    ELSE IF v[1] >= 253 THEN <<253>> \o LittleEndian(v, 2)
    ELSE <<v[1]>>

\* The buffer as first written, before any edit.
Written == IF entity = "Txid" THEN Txid_serialize(value) ELSE to_bytes(entity, value)

\* The state after `entity`'s own decoder has read the buffer.
ReadBack == pc = "decoded" /\ decoder = entity

\* ----------------------------------------------------------------- claims

\* C1: round trip. For every value x of CompactSize, OutPoint, Script,
\* TransactionInput and BitcoinTransaction, from_bytes(to_bytes(x)) is
\* Ok((x, len(to_bytes(x)))).
C1_RoundTrip ==
    (ReadBack /\ entity \in Decoders /\ edit = "none")
        => result = Ok(value, Len(bytes))

C1_Witness ==
    /\ ReadBack /\ edit = "none"
    /\ entity = "BitcoinTransaction"
    /\ Len(value.inputs) = MaxInputs
    /\ result.tag = "Ok"
    /\ result.consumed = Len(bytes)

\* C3: truncation. Decoding to_bytes(x) with its last byte removed returns
\* Err(InsufficientBytes), for every value x of every entity.
C3_Truncation ==
    (ReadBack /\ entity \in Decoders /\ edit = "truncate"
        /\ Len(bytes) = Len(Written) - 1)
        => result = Err(InsufficientBytes)

C3_Witness ==
    /\ ReadBack /\ edit = "truncate"
    /\ entity = "TransactionInput"
    /\ Len(bytes) = Len(Written) - 1
    /\ result.tag = "Err"

\* C4: CompactSize::to_bytes writes the shortest tag-by-magnitude encoding: one
\* byte up to 252, 0xFD and 2 bytes up to 65535, 0xFE and 4 bytes up to
\* 4294967295, 0xFF and 8 bytes above, little-endian; the eight boundary values
\* give the documented bytes, and decoding gives the value back.
C4_BoundaryTable ==
    <<  <<U64Of(0), <<0>>>>,
        <<U64Of(252), <<252>>>>,
        <<U64Of(253), <<253, 253, 0>>>>,
        <<U64Of(65535), <<253, 255, 255>>>>,
        <<U64Of(65536), <<254, 0, 0, 1, 0>>>>,
        <<<<65535, 65535, 0, 0>>, <<254, 255, 255, 255, 255>>>>,
        <<<<0, 0, 1, 0>>, <<255, 0, 0, 0, 0, 1, 0, 0, 0>>>>,
        <<U64_MAX, <<255, 255, 255, 255, 255, 255, 255, 255, 255>>>> >>

C4_ShortestEncoding ==
    (entity = "CompactSize" /\ pc # "new" /\ edit = "none") =>
        /\ bytes = VarIntOf(value.value)
        /\ \A k \in 1..Len(C4_BoundaryTable) :
                value.value = C4_BoundaryTable[k][1] => bytes = C4_BoundaryTable[k][2]
        /\ ReadBack => result = Ok(value, Len(bytes))

C4_Witness ==
    /\ entity = "CompactSize" /\ ReadBack /\ edit = "none"
    /\ value.value = <<0, 0, 1, 0>>
    /\ Len(bytes) = 9
    /\ result.tag = "Ok"

\* The offset of input k (from 1) in a transaction buffer: after the version and
\* the count, and after the bytes the earlier inputs consumed.
RECURSIVE InputOffset(_, _, _)
InputOffset(b, oc, k) ==
    IF k = 1 THEN 4 + CompactSize_from_bytes(SubSeq(b, 5, Len(b))).consumed
    ELSE LET prev == InputOffset(b, oc, k - 1) IN
         prev + TransactionInput_from_bytes(SubSeq(b, prev + 1, Len(b)), oc).consumed

\* C5: BitcoinTransaction::from_bytes returns exactly as many inputs as the
\* count on the wire declares, in wire order, or fails. A buffer that declares
\* 2 inputs and holds 1 fails with InsufficientBytes; a declared count of 0
\* gives an empty list.
C5_DeclaredCount ==
    (pc = "decoded" /\ decoder = "BitcoinTransaction") =>
        /\ result.tag = "Ok" =>
            LET declared == CompactSize_from_bytes(SubSeq(bytes, 5, Len(bytes)))
                inputs == result.value.inputs
            IN  /\ declared.tag = "Ok"
                /\ declared.value.value = U64Of(Len(inputs))
                /\ \A k \in 1..Len(inputs) :
                        LET at == InputOffset(bytes, overflow_checks, k)
                            one == TransactionInput_from_bytes(
                                       SubSeq(bytes, at + 1, Len(bytes)), overflow_checks)
                        IN  one.tag = "Ok" /\ one.value = inputs[k]
        /\ (entity = "BitcoinTransaction" /\ Len(value.inputs) = 1
                /\ bytes = [Written EXCEPT ![5] = 2])
            => result = Err(InsufficientBytes)
        /\ (entity = "BitcoinTransaction" /\ Len(value.inputs) = 2
                /\ bytes = SubSeq(Written, 1,
                                  5 + Len(TransactionInput_to_bytes(value.inputs[1]))))
            => result = Err(InsufficientBytes)
        /\ (Len(bytes) >= 9 /\ bytes[5] = 0)
            => (result.tag = "Ok" /\ result.value.inputs = <<>>)

C5_Witness ==
    /\ pc = "decoded" /\ decoder = "BitcoinTransaction"
    /\ entity = "BitcoinTransaction" /\ Len(value.inputs) = 1
    /\ bytes = [Written EXCEPT ![5] = 2]
    /\ result.tag = "Err"

\* The stated layout of one input and of a list of inputs.
InputLayout(in) ==
    in.previous_output.txid.arr
        \o LittleEndian(in.previous_output.vout, 4)
        \o VarIntOf(U64Of(Len(in.script_sig.bytes)))
        \o in.script_sig.bytes
        \o LittleEndian(in.sequence, 4)

InputsLayout(inputs) ==
    LET start[k \in 1..(Len(inputs) + 1)] ==
            IF k = 1 THEN 0 ELSE start[k - 1] + Len(InputLayout(inputs[k - 1]))
    IN  [p \in 1..start[Len(inputs) + 1] |->
            LET k == CHOOSE j \in 1..Len(inputs) : start[j] < p /\ p <= start[j + 1]
            IN  InputLayout(inputs[k])[p - start[k]]]

TransactionLayout(tx) ==
    LittleEndian(tx.version, 4)
        \o VarIntOf(U64Of(Len(tx.inputs)))
        \o InputsLayout(tx.inputs)
        \o LittleEndian(tx.lock_time, 4)

EmptyTransaction == BitcoinTransaction_new(U32Of(1), <<>>, U32Of(0))

\* C6 as stated: BitcoinTransaction::to_bytes is version (4 bytes LE), VarInt of
\* the input count, each input in order (txid, vout LE, VarInt script length,
\* script bytes, sequence LE), lock_time (4 bytes LE); version 1 with no inputs
\* and lock_time 0 is 01 00 00 00 | 00 | 00 00 00 00, 12 bytes.
C6_LayoutTwelveBytes ==
    (entity = "BitcoinTransaction" /\ pc = "wire" /\ edit = "none") =>
        /\ bytes = TransactionLayout(value)
        /\ value = EmptyTransaction =>
            (bytes = <<1, 0, 0, 0, 0, 0, 0, 0, 0>> /\ Len(bytes) = 12)

\* C6, amended: the same layout; version 1 with no inputs and lock_time 0 is
\* 01 00 00 00 | 00 | 00 00 00 00, which is 9 bytes.
C6_Layout ==
    (entity = "BitcoinTransaction" /\ pc = "wire" /\ edit = "none") =>
        /\ bytes = TransactionLayout(value)
        /\ value = EmptyTransaction =>
            (bytes = <<1, 0, 0, 0, 0, 0, 0, 0, 0>> /\ Len(bytes) = 9)

C6_Witness ==
    /\ entity = "BitcoinTransaction" /\ pc = "wire" /\ edit = "none"
    /\ Len(value.inputs) = MaxInputs
    /\ value.inputs[1] # value.inputs[MaxInputs]
    /\ bytes = TransactionLayout(value)

\* The bytes a VarInt tag demands in all, and whether a tagged buffer is the
\* shortest encoding of what it carries.
TagWidth(tag) == IF tag <= 252 THEN 1 ELSE IF tag = 253 THEN 3 ELSE IF tag = 254 THEN 5 ELSE 9

MinimallyEncoded(b) ==
    \/ b[1] <= 252
    \/ b[1] = 253 /\ (b[3] > 0 \/ b[2] >= 253)
    \/ b[1] = 254 /\ (b[4] > 0 \/ b[5] > 0)
    \/ b[1] = 255 /\ (b[6] > 0 \/ b[7] > 0 \/ b[8] > 0 \/ b[9] > 0)

\* The little-endian payload of n bytes after the tag, as a u64.
Payload(b, n) ==
    [j \in 1..4 |->
        (IF 2 * j - 1 <= n THEN b[2 * j] ELSE 0)
            + 256 * (IF 2 * j <= n THEN b[2 * j + 1] ELSE 0)]

\* C7: CompactSize::from_bytes checks no canonical form. It succeeds exactly
\* when the bytes the tag demands are present; then n is 1, 3, 5 or 9 by tag, v
\* is the tag itself or the little-endian payload, and to_bytes(v) = b[0..n] if
\* and only if b[0..n] is minimally encoded. 0xFD 0x0A 0x00 decodes to 10.
C7_NoCanonicalCheck ==
    (pc = "decoded" /\ decoder = "CompactSize") =>
        /\ result.tag \in {"Ok", "Err"}
        /\ result.tag = "Ok" <=> (Len(bytes) >= 1 /\ Len(bytes) >= TagWidth(bytes[1]))
        /\ result.tag = "Ok" =>
            LET n == result.consumed
                v == result.value.value
            IN  /\ n = TagWidth(bytes[1])
                /\ v = (IF n = 1 THEN <<bytes[1], 0, 0, 0>> ELSE Payload(bytes, n - 1))
                /\ (CompactSize_to_bytes(result.value) = SubSeq(bytes, 1, n))
                        <=> MinimallyEncoded(bytes)
        /\ (Len(bytes) >= 3 /\ SubSeq(bytes, 1, 3) = <<253, 10, 0>>)
            => result = Ok(CompactSize_new(U64Of(10)), 3)

C7_Witness ==
    /\ pc = "decoded" /\ decoder = "CompactSize"
    /\ bytes = <<253, 10, 0>>
    /\ result.tag = "Ok"
    /\ CompactSize_to_bytes(result.value) = <<10>>

\* C8 as stated: Script::from_bytes returns the length prefix's error unchanged;
\* otherwise it succeeds exactly when at least `length` bytes follow the
\* prefix of width w, with the script buffer[w .. w+length] and w + length
\* consumed, and else returns InsufficientBytes.
C8_ScriptDecode ==
    (pc = "decoded" /\ decoder = "Script") =>
        LET prefix == CompactSize_from_bytes(bytes) IN
        IF prefix.tag # "Ok" THEN result = prefix
        ELSE LET w == prefix.consumed
                 length == prefix.value.value
             IN  IF U64Le(length, U64Of(Len(bytes) - w))
                 THEN result = Ok(Script_new(SubSeq(bytes, w + 1, w + UsizeToNat(length))),
                                  w + UsizeToNat(length))
                 ELSE result = Err(InsufficientBytes)

\* C2 as stated: every decoder, on any buffer, returns Ok((value, consumed)) or
\* an error value and never panics; a buffer too short for a field is reported
\* as InsufficientBytes, also for a script length prefix of up to 2^64-1.
C2_NoPanic ==
    (pc = "decoded" /\ decoder \in Decoders) =>
        /\ result.tag \in {"Ok", "Err"}
        /\ result.tag = "Err" => result.err = InsufficientBytes
        /\ result.tag = "Ok" => result.consumed <= Len(bytes)

HexDigits == (48..57) \cup (65..70) \cup (97..102)
ValidHex(str) == Len(str) % 2 = 0 /\ \A i \in 1..Len(str) : str[i] \in HexDigits
HasNonHex(str) == \E i \in 1..Len(str) : str[i] \notin HexDigits

C10_PrefixDeterminism ==
    (pc = "decoded" /\ decoder \in Decoders /\ result.tag = "Ok") =>
        LET n == result.consumed IN
        /\ n <= Len(bytes)
        /\ \A s \in {<<>>, <<253>>, <<0, 255>>, SubSeq(bytes, 1, n)} :
                from_bytes(decoder, SubSeq(bytes, 1, n) \o s, overflow_checks) = result
        /\ decoder = "BitcoinTransaction" =>
                n = InputOffset(bytes, overflow_checks, Len(result.value.inputs) + 1) + 4

C10_Witness ==
    /\ pc = "decoded" /\ decoder = "BitcoinTransaction" /\ result.tag = "Ok"
    /\ result.consumed < Len(bytes)
    /\ Len(result.value.inputs) = MaxInputs

====
